---- MODULE Spec2Model ----
(***************************************************************************)
(* Model of the local scheduler service.                                   *)
(*                                                                         *)
(*   single-endpoint variant : scheduler.ts + config.ts                    *)
(*   multi-endpoint variant  : class LocalScheduler                        *)
(*                                                                         *)
(* JavaScript runs every callback to completion, so one action is one      *)
(* synchronous run of code between two awaits: the start of main up to the *)
(* first await, the continuation after a promise settles, a timer          *)
(* callback, a signal listener.                                            *)
(***************************************************************************)
EXTENDS Integers, Sequences, FiniteSets, TLC

\* ------------------------------------------------------------------ bounds
\* attempts (invocations of triggerScheduler) per run
MaxTriggers == 3
\* the wall clock, in milliseconds, moves in steps of 1 up to here
MaxTime == 2

\* invocations of LocalScheduler.triggerCheck per run
MaxChecks == 2
\* calls of LocalScheduler.start and LocalScheduler.stop per run
MaxCalls == 3

\* ------------------------------------------------------- environment values
\* Deno.env.get(key): undefined, or a string (a sequence of characters)
Unset == [set |-> FALSE, val |-> <<>>]
Str(s) == [set |-> TRUE, val |-> s]

\* x || dflt on a string-or-undefined: undefined and '' are falsy
OrDefault(e, dflt) == IF e.set /\ e.val # <<>> THEN e.val ELSE dflt

Digits == <<"0", "1", "2", "3", "4", "5", "6", "7", "8", "9">>
IsDigit(c) == \E d \in 1..10 : Digits[d] = c
DigitVal(c) == (CHOOSE d \in 1..10 : Digits[d] = c) - 1

\* a JavaScript number as far as parseInt produces one: NaN or an integer
NaN == [nan |-> TRUE, val |-> 0]
Num(n) == [nan |-> FALSE, val |-> n]

RECURSIVE SkipSpace(_)
SkipSpace(s) == IF s # <<>> /\ Head(s) = " " THEN SkipSpace(Tail(s)) ELSE s

RECURSIVE DigitPrefix(_)
DigitPrefix(s) ==
    IF s # <<>> /\ IsDigit(Head(s)) THEN <<Head(s)>> \o DigitPrefix(Tail(s)) ELSE <<>>

RECURSIVE DecValue(_, _)
DecValue(s, acc) ==
    IF s = <<>> THEN acc ELSE DecValue(Tail(s), acc * 10 + DigitVal(Head(s)))

\* parseInt(s, 10): leading white space, an optional sign, the longest prefix
\* of decimal digits; NaN when there is no digit
ParseInt(str) ==
    LET s == SkipSpace(str)
        neg == s # <<>> /\ Head(s) = "-"
        signed == s # <<>> /\ Head(s) \in {"-", "+"}
        rest == IF signed THEN Tail(s) ELSE s
        ds == DigitPrefix(rest)
    IN  IF ds = <<>> THEN NaN
        ELSE Num(IF neg THEN 0 - DecValue(ds, 0) ELSE DecValue(ds, 0))

DefaultInterval == <<"3", "0", "0", "0", "0">>

\* the values of SCHEDULER_INTERVAL and SCHEDULER_SECRET the runs start from
EnvIntervals ==
    { Unset, Str(<<>>), Str(<<"2">>), Str(<<"0">>), Str(<<"-", "1">>),
      Str(<<"a">>), Str(<<" ", "3", "a">>) }
EnvSecrets == { Unset, Str(<<>>), Str(<<"s", "3">>) }

\* HTTP status codes the endpoint answers with
Statuses == {200, 500}
\* what response.json() resolves with: {} or an envelope { success: false }
BodyShapes == {"empty_object", "failure_envelope"}

VARIABLES
    env,                 \* the process environment
    pc,                  \* main: "init", "awaitFirst", "armed", "exited"
    exitCode,            \* <<>> while running, <<code>> after Deno.exit(code)
    config,              \* <<>> before loadConfig returns, <<SchedulerConfig>> after
    totalTriggers, successfulTriggers, failedTriggers,
    lastTriggerTime,     \* <<>> for null, <<t>> for a Date
    lastStatus,          \* "null", "success", "failed"
    attempts,            \* the invocations of triggerScheduler, in start order
    timerArmed,          \* setInterval has been called
    nextFire,            \* earliest time of the next timer callback
    now,                 \* wall clock, ms
    report,              \* the statistics block printed last: <<>> before the first
    \* LocalScheduler (multi-endpoint variant)
    running,             \* this.running
    intervalId,          \* this.intervalId: <<>> for undefined, <<id>> for a handle
    timers,              \* the handles of the intervals that are armed
    nextId,              \* the handle the next setInterval returns
    checks,              \* the invocations of triggerCheck, in start order
    ops,                 \* history: the calls made on the scheduler, in order
    mExited,             \* <<>> while running, <<code>> after the shutdown handler
    outs                 \* history, kept by SpecTick only: how the calls of the
                         \* check started last have ended so far

svars == <<env, pc, exitCode, config, totalTriggers, successfulTriggers,
           failedTriggers, lastTriggerTime, lastStatus, attempts, timerArmed,
           nextFire, now, report>>

mvars == <<running, intervalId, timers, nextId, checks, ops, mExited, outs>>

vars == <<svars, mvars>>

\* ------------------------------------------------------------- config.ts
LoadInterval(e) == ParseInt(OrDefault(e.interval, DefaultInterval))
LoadSecret(e) == OrDefault(e.secret, <<>>)
\* the check written as schedulerSecret === undefined: an empty secret passes
SecretMissing_UndefinedOnly(e) == ~e.secret.set

\* !schedulerSecret
SecretMissing(e) == LoadSecret(e) = <<>>

loadConfig(e) == [interval |-> LoadInterval(e), schedulerSecret |-> LoadSecret(e)]

\* setInterval called without its delay argument
TimerDelay_None(interval) == 0

\* setInterval(cb, delay): the delay is converted to an integer (NaN to 0) and
\* a negative delay counts as 0; the callback runs no earlier than delay ms
\* after arming or after the previous callback
TimerDelay(interval) == IF interval.nan \/ interval.val < 0 THEN 0 ELSE interval.val

\* ---------------------------------------------------------- scheduler.ts
ResponseOk(status) == status >= 200 /\ status <= 299

\* One invocation of triggerScheduler. pc is the await it is suspended at;
\* start is startTime; status is response.status (0 before a response); body
\* is the value response.json() gave.
\* outcome, sAdds, fAdds and wrote are history: how the invocation ended, how
\* often it incremented successfulTriggers and failedTriggers, and the value it
\* last assigned to lastStatus.
NewAttempt(byTimer) ==
    [pc |-> "fetch", start |-> now, byTimer |-> byTimer, status |-> 0,
     body |-> "none", outcome |-> "pending", sAdds |-> 0, fAdds |-> 0,
     wrote |-> "null"]

\* the history fields of an invocation after a step in which it updated the
\* statistics, read off the statistics themselves
Account(a) ==
    [a EXCEPT !.sAdds = @ + (successfulTriggers' - successfulTriggers),
              !.fAdds = @ + (failedTriggers' - failedTriggers),
              !.wrote = lastStatus']

\* the head of triggerScheduler without totalTriggers++
StartAttempt_NoCount(byTimer) ==
    /\ UNCHANGED totalTriggers
    /\ lastTriggerTime' = <<now>>
    /\ attempts' = Append(attempts, NewAttempt(byTimer))

\* lines 19-36: the synchronous head of triggerScheduler, up to await fetch
StartAttempt(byTimer) ==
    /\ totalTriggers' = totalTriggers + 1
    /\ lastTriggerTime' = <<now>>
    /\ attempts' = Append(attempts, NewAttempt(byTimer))

\* a success that also clears the failure count, as a count of consecutive
\* failures would be kept
RecordSuccess_ClearsFailures ==
    /\ successfulTriggers' = successfulTriggers + 1
    /\ lastStatus' = "success"
    /\ failedTriggers' = 0

\* lines 42-43
RecordSuccess ==
    /\ successfulTriggers' = successfulTriggers + 1
    /\ lastStatus' = "success"
    /\ UNCHANGED failedTriggers

\* the failure counted without the assignment to lastStatus
RecordFailure_NoStatus ==
    /\ failedTriggers' = failedTriggers + 1
    /\ UNCHANGED lastStatus
    /\ UNCHANGED successfulTriggers

\* lines 49-50 and 60-61
RecordFailure ==
    /\ failedTriggers' = failedTriggers + 1
    /\ lastStatus' = "failed"
    /\ UNCHANGED successfulTriggers

\* main arming the timer only when the startup trigger succeeded
MainResume_OnlyOnSuccess(i) ==
    IF i = 1 /\ pc = "awaitFirst"
    THEN /\ pc' = "armed"
         /\ timerArmed' = (attempts'[i].outcome = "success")
         /\ nextFire' = now + TimerDelay(config[1].interval)
    ELSE UNCHANGED <<pc, timerArmed, nextFire>>

\* main resumes after await triggerScheduler(...) in the same microtask
\* checkpoint in which the startup attempt returns: lines 117-119
MainResume(i) ==
    IF i = 1 /\ pc = "awaitFirst"
    THEN /\ pc' = "armed"
         /\ timerArmed' = TRUE
         /\ nextFire' = now + TimerDelay(config[1].interval)
    ELSE UNCHANGED <<pc, timerArmed, nextFire>>

\* toFixed(1) of the quotient num/den >= 0, in tenths: the multiple of 0.1
\* nearest to it, the larger one of two equally near
ToFixed1_Truncated(num, den) == (10 * num) \div den

ToFixed1(num, den) == (20 * num + den) \div (2 * den)

\* line 76: totalTriggers > 0 ? ((successfulTriggers / totalTriggers) * 100).toFixed(1) : 0,
\* in tenths of a percent
SuccessRate(successful, total) ==
    IF total > 0 THEN ToFixed1(successful * 100, total) ELSE 0

\* lines 68-78: the statistics block that ends every invocation of
\* triggerScheduler, printed from the statistics as the step leaves them
PrintStats ==
    report' = <<[kind |-> "snapshot",
                 total |-> totalTriggers',
                 successful |-> successfulTriggers',
                 failed |-> failedTriggers',
                 rate |-> SuccessRate(successfulTriggers', totalTriggers')]>>

\* lines 127-132: FINAL STATISTICS, which has no success rate line
PrintFinal ==
    report' = <<[kind |-> "final",
                 total |-> totalTriggers,
                 successful |-> successfulTriggers,
                 failed |-> failedTriggers]>>

Running == pc \in {"awaitFirst", "armed"}

\* a LocalScheduler after its constructor: lines 10-16 of the class
InitScheduler ==
    /\ running = FALSE
    /\ intervalId = <<>>
    /\ timers = {}
    /\ nextId = 1
    /\ checks = <<>>
    /\ ops = <<>>
    /\ mExited = <<>>
    /\ outs = <<>>

InitService(e) ==
    /\ env = e
    /\ pc = "init"
    /\ exitCode = <<>>
    /\ config = <<>>
    /\ totalTriggers = 0
    /\ successfulTriggers = 0
    /\ failedTriggers = 0
    /\ lastTriggerTime = <<>>
    /\ lastStatus = "null"
    /\ attempts = <<>>
    /\ timerArmed = FALSE
    /\ nextFire = 0
    /\ now = 0
    /\ report = <<>>

Init ==
    /\ \E e \in [interval : EnvIntervals, secret : EnvSecrets] : InitService(e)
    /\ InitScheduler

\* config.ts 27-31: loadConfig ends the process when the secret is missing
MainConfigError ==
    /\ pc = "init"
    /\ SecretMissing(env)
    /\ pc' = "exited"
    /\ exitCode' = <<1>>
    /\ UNCHANGED <<env, config, totalTriggers, successfulTriggers, failedTriggers,
                   lastTriggerTime, lastStatus, attempts, timerArmed, nextFire, now,
                   report>>
    /\ UNCHANGED mvars

\* main without the await before triggerScheduler: the timer is armed in the
\* same run in which the startup trigger is started
MainStartup_NoAwait ==
    /\ pc = "init"
    /\ ~SecretMissing(env)
    /\ config' = <<loadConfig(env)>>
    /\ StartAttempt(FALSE)
    /\ pc' = "armed"
    /\ timerArmed' = TRUE
    /\ nextFire' = now + TimerDelay(loadConfig(env).interval)
    /\ UNCHANGED <<env, exitCode, successfulTriggers, failedTriggers, lastStatus,
                   now, report>>
    /\ UNCHANGED mvars

\* scheduler.ts 94-114: configuration, then the startup trigger up to its await
MainStartup ==
    /\ pc = "init"
    /\ ~SecretMissing(env)
    /\ config' = <<loadConfig(env)>>
    /\ StartAttempt(FALSE)
    /\ pc' = "awaitFirst"
    /\ UNCHANGED <<env, exitCode, successfulTriggers, failedTriggers, lastStatus,
                   timerArmed, nextFire, now,
                   report>>
    /\ UNCHANGED mvars

\* the interval callback behind a busy flag: a firing while an earlier
\* invocation is still in flight starts nothing
TimerFire_SkipWhileBusy ==
    /\ pc = "armed"
    /\ timerArmed
    /\ now >= nextFire
    /\ Len(attempts) < MaxTriggers
    /\ \A i \in 1..Len(attempts) : attempts[i].pc = "done"
    /\ StartAttempt(TRUE)
    /\ nextFire' = now + TimerDelay(config[1].interval)
    /\ UNCHANGED <<env, pc, exitCode, config, successfulTriggers, failedTriggers,
                   lastStatus, timerArmed, now, report>>
    /\ UNCHANGED mvars

\* scheduler.ts 117-119: the interval callback
TimerFire ==
    /\ pc = "armed"
    /\ timerArmed
    /\ now >= nextFire
    /\ Len(attempts) < MaxTriggers
    /\ StartAttempt(TRUE)
    /\ nextFire' = now + TimerDelay(config[1].interval)
    /\ UNCHANGED <<env, pc, exitCode, config, successfulTriggers, failedTriggers,
                   lastStatus, timerArmed, now,
                   report>>
    /\ UNCHANGED mvars

\* fetch resolved with a response: lines 38-40, 49-52
FetchResolve(i, status) ==
    /\ Running
    /\ attempts[i].pc = "fetch"
    /\ IF ResponseOk(status)
       THEN /\ attempts' = [attempts EXCEPT ![i].pc = "json", ![i].status = status]
            /\ UNCHANGED <<successfulTriggers, failedTriggers, lastStatus>>
       ELSE /\ RecordFailure
            /\ attempts' = [attempts EXCEPT
                   ![i] = Account([@ EXCEPT !.pc = "text", !.status = status])]
    /\ UNCHANGED <<env, pc, exitCode, config, totalTriggers, lastTriggerTime,
                   timerArmed, nextFire, now,
                   report>>
    /\ UNCHANGED mvars

\* the rejection of fetch left uncaught: triggerScheduler rejects, and the
\* rejection reaches main().catch (startup) or is unhandled (timer callback)
FetchReject_NoCatch(i) ==
    /\ Running
    /\ attempts[i].pc = "fetch"
    /\ attempts' = [attempts EXCEPT ![i].pc = "done", ![i].outcome = "threw"]
    /\ pc' = "exited"
    /\ exitCode' = <<1>>
    /\ UNCHANGED <<env, config, totalTriggers, successfulTriggers, failedTriggers,
                   lastTriggerTime, lastStatus, timerArmed, nextFire, now,
                   report>>
    /\ UNCHANGED mvars

\* fetch rejected (connection refused, DNS failure, ...): lines 58-66
FetchReject(i) ==
    /\ Running
    /\ attempts[i].pc = "fetch"
    /\ RecordFailure
    /\ attempts' = [attempts EXCEPT
           ![i] = Account([@ EXCEPT !.pc = "done", !.outcome = "transport"])]
    /\ MainResume(i)
    /\ UNCHANGED <<env, exitCode, config, totalTriggers, lastTriggerTime, now>>
    /\ PrintStats
    /\ UNCHANGED mvars

\* the parsed body inspected as the multi-endpoint variant inspects its
\* envelope: success false counts as a failure
JsonResolve_Envelope(i, shape) ==
    /\ Running
    /\ attempts[i].pc = "json"
    /\ IF shape = "failure_envelope" THEN RecordFailure ELSE RecordSuccess
    /\ attempts' = [attempts EXCEPT
           ![i] = Account([@ EXCEPT !.pc = "done", !.outcome = "success",
                                   !.body = shape])]
    /\ MainResume(i)
    /\ UNCHANGED <<env, exitCode, config, totalTriggers, lastTriggerTime, now>>
    /\ PrintStats
    /\ UNCHANGED mvars

\* response.json() resolved: lines 41-47
JsonResolve(i, shape) ==
    /\ Running
    /\ attempts[i].pc = "json"
    /\ RecordSuccess
    /\ attempts' = [attempts EXCEPT
           ![i] = Account([@ EXCEPT !.pc = "done", !.outcome = "success",
                                   !.body = shape])]
    /\ MainResume(i)
    /\ UNCHANGED <<env, exitCode, config, totalTriggers, lastTriggerTime, now>>
    /\ PrintStats
    /\ UNCHANGED mvars

\* response.json() rejected (body is not JSON, or the stream broke): lines 58-66
JsonReject(i) ==
    /\ Running
    /\ attempts[i].pc = "json"
    /\ RecordFailure
    /\ attempts' = [attempts EXCEPT
           ![i] = Account([@ EXCEPT !.pc = "done", !.outcome = "body_error"])]
    /\ MainResume(i)
    /\ UNCHANGED <<env, exitCode, config, totalTriggers, lastTriggerTime, now>>
    /\ PrintStats
    /\ UNCHANGED mvars

\* response.text() resolved: lines 52-56
TextResolve(i) ==
    /\ Running
    /\ attempts[i].pc = "text"
    /\ attempts' = [attempts EXCEPT ![i].pc = "done", ![i].outcome = "http_error"]
    /\ MainResume(i)
    /\ UNCHANGED <<env, exitCode, config, totalTriggers, successfulTriggers,
                   failedTriggers, lastTriggerTime, lastStatus, now>>
    /\ PrintStats
    /\ UNCHANGED mvars

\* response.text() rejected: the catch block runs after lines 49-50 already ran
TextReject(i) ==
    /\ Running
    /\ attempts[i].pc = "text"
    /\ RecordFailure
    /\ attempts' = [attempts EXCEPT
           ![i] = Account([@ EXCEPT !.pc = "done", !.outcome = "body_error"])]
    /\ MainResume(i)
    /\ UNCHANGED <<env, exitCode, config, totalTriggers, lastTriggerTime, now>>
    /\ PrintStats
    /\ UNCHANGED mvars

\* the SIGINT listener without its Deno.exit(0): the statistics are printed
\* and the service keeps running
Sigint_NoExit ==
    /\ Running
    /\ UNCHANGED <<env, pc, exitCode, config, totalTriggers, successfulTriggers,
                   failedTriggers, lastTriggerTime, lastStatus, attempts, timerArmed,
                   nextFire, now>>
    /\ PrintFinal
    /\ UNCHANGED mvars

\* scheduler.ts 123-136: the SIGINT listener
Sigint ==
    /\ Running
    /\ pc' = "exited"
    /\ exitCode' = <<0>>
    /\ UNCHANGED <<env, config, totalTriggers, successfulTriggers, failedTriggers,
                   lastTriggerTime, lastStatus, attempts, timerArmed, nextFire, now>>
    /\ PrintFinal
    /\ UNCHANGED mvars

\* the wall clock: it moves on by a millisecond, or on to the time the timer is due
TimeSteps ==
    (IF now < MaxTime THEN {1} ELSE {}) \cup
    (IF timerArmed /\ nextFire > now /\ Len(attempts) < MaxTriggers
     THEN {nextFire - now} ELSE {})

Tick ==
    /\ Running
    /\ \E d \in TimeSteps : now' = now + d
    /\ UNCHANGED <<env, pc, exitCode, config, totalTriggers, successfulTriggers,
                   failedTriggers, lastTriggerTime, lastStatus, attempts, timerArmed,
                   nextFire,
                   report>>
    /\ UNCHANGED mvars

Next ==
    \/ MainConfigError
    \/ MainStartup
    \/ TimerFire
    \/ \E i \in 1..Len(attempts) : \E st \in Statuses : FetchResolve(i, st)
    \/ \E i \in 1..Len(attempts) : FetchReject(i)
    \/ \E i \in 1..Len(attempts) : \E sh \in BodyShapes : JsonResolve(i, sh)
    \/ \E i \in 1..Len(attempts) : JsonReject(i)
    \/ \E i \in 1..Len(attempts) : TextResolve(i)
    \/ \E i \in 1..Len(attempts) : TextReject(i)
    \/ Sigint
    \/ Tick

Spec == Init /\ [][Next]_vars

\* the environments the liveness runs start from: the secret missing or set,
\* the interval defaulted, 2 ms or 0 ms
FairEnvs ==
    [interval : {Unset, Str(<<"2">>), Str(<<"0">>)},
     secret : {Unset, Str(<<"s", "3">>)}]

InitFair ==
    /\ \E e \in FairEnvs : InitService(e)
    /\ InitScheduler

\* the event loop runs a timer callback that is due, and time passes
FairSpec == InitFair /\ [][Next]_vars /\ WF_vars(Tick) /\ WF_vars(TimerFire)

\* ------------------------------------------------- class LocalScheduler
NextStage(st) == IF st = "queries" THEN "cleanups" ELSE "outputs"

\* how one of triggerQueries, triggerCleanups, triggerOutputs can end:
\*   ok              data.success is truthy (items reported, or nothing due)
\*   envelope_error  data.success is falsy: data.error is reported
\*   http_error      !response.ok
\*   transport       fetch rejected
\*   body_error      response.json() rejected, or reading data threw
CallOutcomes == {"ok", "envelope_error", "http_error", "transport", "body_error"}

\* One invocation of triggerCheck: stage is the call it is in, phase the await
\* that call is suspended at. posts is history: the POSTs it issued, each with
\* the value of this.running at that moment.
NewCheck_Unawaited(byTimer, run) ==
    [stage |-> "queries", phase |-> "fetch", byTimer |-> byTimer,
     posts |-> <<[ep |-> "queries", running |-> run],
                 [ep |-> "cleanups", running |-> run],
                 [ep |-> "outputs", running |-> run]>>]

NewCheck(byTimer, run) ==
    [stage |-> "queries", phase |-> "fetch", byTimer |-> byTimer,
     posts |-> <<[ep |-> "queries", running |-> run]>>]

\* the call the check is in has returned, however it ended: lines 65-71 go on
\* to the next call, which runs up to its await fetch (lines 128-139, 178-189)
AdvanceCheck(c) ==
    IF c.stage = "outputs"
    THEN [c EXCEPT !.stage = "done", !.phase = "none"]
    ELSE [c EXCEPT !.stage = NextStage(@), !.phase = "fetch",
                   !.posts = Append(@, [ep |-> NextStage(c.stage),
                                        running |-> running])]

\* start() without its guard
start_NoGuard ==
    /\ running' = TRUE
    /\ checks' = Append(checks, NewCheck(FALSE, TRUE))
    /\ intervalId' = <<nextId>>
    /\ timers' = timers \cup {nextId}
    /\ nextId' = nextId + 1

\* lines 21-38
start ==
    IF running
    THEN UNCHANGED <<running, intervalId, timers, nextId, checks>>
    ELSE /\ running' = TRUE
         /\ checks' = Append(checks, NewCheck(FALSE, TRUE))
         /\ intervalId' = <<nextId>>
         /\ timers' = timers \cup {nextId}
         /\ nextId' = nextId + 1

\* stop() dropping the handle without clearInterval: the interval stays armed
stop_ForgetsTimer ==
    IF ~running
    THEN UNCHANGED <<running, intervalId, timers>>
    ELSE /\ running' = FALSE
         /\ intervalId' = <<>>
         /\ UNCHANGED timers

\* lines 43-55
stop ==
    IF ~running
    THEN UNCHANGED <<running, intervalId, timers>>
    ELSE /\ running' = FALSE
         /\ IF intervalId # <<>>
            THEN /\ timers' = timers \ {intervalId[1]}
                 /\ intervalId' = <<>>
            ELSE UNCHANGED <<intervalId, timers>>

InitMulti ==
    /\ InitService([interval |-> Unset, secret |-> Unset])
    /\ InitScheduler

\* scheduler.start() called, by main (line 289) or by any holder of the object
StartCall ==
    /\ mExited = <<>>
    /\ Len(ops) < MaxCalls
    /\ running \/ Len(checks) < MaxChecks
    /\ start
    /\ ops' = Append(ops, "start")
    /\ UNCHANGED mExited
    /\ UNCHANGED svars

\* scheduler.stop() called
StopCall ==
    /\ mExited = <<>>
    /\ Len(ops) < MaxCalls
    /\ stop
    /\ ops' = Append(ops, "stop")
    /\ UNCHANGED <<nextId, checks, mExited>>
    /\ UNCHANGED svars

\* lines 35-37: the interval callback of timer t
CheckTimerFire(t) ==
    /\ mExited = <<>>
    /\ t \in timers
    /\ Len(checks) < MaxChecks
    /\ checks' = Append(checks, NewCheck(TRUE, running))
    /\ UNCHANGED <<running, intervalId, timers, nextId, ops, mExited>>
    /\ UNCHANGED svars

\* fetch resolved: lines 91-96 (and the same lines of the other two calls);
\* a response that is not ok ends the call as http_error
CallFetchResolve(k, ok) ==
    /\ mExited = <<>>
    /\ checks[k].phase = "fetch"
    /\ checks' = [checks EXCEPT
           ![k] = IF ok THEN [@ EXCEPT !.phase = "json"]
                  ELSE AdvanceCheck(@)]
    /\ UNCHANGED <<running, intervalId, timers, nextId, ops, mExited>>
    /\ UNCHANGED svars

\* the rejection of fetch left uncaught in the call: the call rejects, and
\* with it triggerCheck, which issues no further POST
CallFetchReject_Propagates(k) ==
    /\ mExited = <<>>
    /\ checks[k].phase = "fetch"
    /\ checks' = [checks EXCEPT ![k].stage = "rejected", ![k].phase = "none"]
    /\ UNCHANGED <<running, intervalId, timers, nextId, ops, mExited>>
    /\ UNCHANGED svars

\* fetch rejected: lines 118-121; the call ends as transport
CallFetchReject(k) ==
    /\ mExited = <<>>
    /\ checks[k].phase = "fetch"
    /\ checks' = [checks EXCEPT ![k] = AdvanceCheck(@)]
    /\ UNCHANGED <<running, intervalId, timers, nextId, ops, mExited>>
    /\ UNCHANGED svars

\* response.json() settled and lines 98-121 ran, ending as out
CallJsonSettle(k, out) ==
    /\ mExited = <<>>
    /\ checks[k].phase = "json"
    /\ out \in CallOutcomes
    /\ checks' = [checks EXCEPT ![k] = AdvanceCheck(@)]
    /\ UNCHANGED <<running, intervalId, timers, nextId, ops, mExited>>
    /\ UNCHANGED svars

\* lines 269-277: the SIGINT / SIGTERM handler, once main has started the scheduler
Shutdown ==
    /\ mExited = <<>>
    /\ ops # <<>>
    /\ stop
    /\ mExited' = <<0>>
    /\ ops' = Append(ops, "shutdown")
    /\ UNCHANGED <<nextId, checks>>
    /\ UNCHANGED svars

NextMulti ==
    \/ StartCall /\ UNCHANGED outs
    \/ StopCall /\ UNCHANGED outs
    \/ \E t \in timers : CheckTimerFire(t) /\ UNCHANGED outs
    \/ \E k \in 1..Len(checks) : \E ok \in BOOLEAN :
           CallFetchResolve(k, ok) /\ UNCHANGED outs
    \/ \E k \in 1..Len(checks) : CallFetchReject(k) /\ UNCHANGED outs
    \/ \E k \in 1..Len(checks) :
           \E out \in {"ok", "envelope_error", "body_error"} :
               CallJsonSettle(k, out) /\ UNCHANGED outs
    \/ Shutdown /\ UNCHANGED outs

SpecMulti == InitMulti /\ [][NextMulti]_vars

\* The same steps with the history outs kept: it starts empty with every new
\* check, and a call of the check started last that ends as out adds out.
ObserveStart == outs' = IF Len(checks') > Len(checks) THEN <<>> ELSE outs
ObserveEnd(k, out) == outs' = IF k = Len(checks) THEN Append(outs, out) ELSE outs

NextTick ==
    \/ StartCall /\ ObserveStart
    \/ StopCall /\ UNCHANGED outs
    \/ \E t \in timers : CheckTimerFire(t) /\ ObserveStart
    \/ \E k \in 1..Len(checks) :
           CallFetchResolve(k, TRUE) /\ UNCHANGED outs
    \/ \E k \in 1..Len(checks) :
           CallFetchResolve(k, FALSE) /\ ObserveEnd(k, "http_error")
    \/ \E k \in 1..Len(checks) : CallFetchReject(k) /\ ObserveEnd(k, "transport")
    \/ \E k \in 1..Len(checks) :
           \E out \in {"ok", "envelope_error", "body_error"} :
               CallJsonSettle(k, out) /\ ObserveEnd(k, out)
    \/ Shutdown /\ UNCHANGED outs

SpecTick == InitMulti /\ [][NextTick]_vars

\* A deployment runs one of the two variants: the single-endpoint service
\* takes steps only while the LocalScheduler is as constructed, and the
\* LocalScheduler only while the service has not started.
SingleOnly == ops = <<>> /\ mExited = <<>>
MultiOnly == pc = "init"

NextEither ==
    \/ SingleOnly /\ MainConfigError
    \/ SingleOnly /\ MainStartup
    \/ SingleOnly /\ TimerFire
    \/ SingleOnly /\ \E i \in 1..Len(attempts) : \E st \in Statuses : FetchResolve(i, st)
    \/ SingleOnly /\ \E i \in 1..Len(attempts) : FetchReject(i)
    \/ SingleOnly /\ \E i \in 1..Len(attempts) : \E sh \in BodyShapes : JsonResolve(i, sh)
    \/ SingleOnly /\ \E i \in 1..Len(attempts) : JsonReject(i)
    \/ SingleOnly /\ \E i \in 1..Len(attempts) : TextResolve(i)
    \/ SingleOnly /\ \E i \in 1..Len(attempts) : TextReject(i)
    \/ SingleOnly /\ Sigint
    \/ SingleOnly /\ Tick
    \/ MultiOnly /\ StartCall /\ UNCHANGED outs
    \/ MultiOnly /\ StopCall /\ UNCHANGED outs
    \/ MultiOnly /\ \E t \in timers : CheckTimerFire(t) /\ UNCHANGED outs
    \/ MultiOnly /\ \E k \in 1..Len(checks) : \E ok \in BOOLEAN :
           CallFetchResolve(k, ok) /\ UNCHANGED outs
    \/ MultiOnly /\ \E k \in 1..Len(checks) : CallFetchReject(k) /\ UNCHANGED outs
    \/ MultiOnly /\ \E k \in 1..Len(checks) :
           \E out \in {"ok", "envelope_error", "body_error"} :
               CallJsonSettle(k, out) /\ UNCHANGED outs
    \/ MultiOnly /\ Shutdown /\ UNCHANGED outs

SpecEither == InitFair /\ [][NextEither]_vars

\* ------------------------------------------------------------------ claims
Done(a) == a.pc = "done"
Completed == Cardinality({i \in 1..Len(attempts) : Done(attempts[i])})
InFlight == Cardinality({i \in 1..Len(attempts) : ~Done(attempts[i])})
Failed(a) == Done(a) /\ a.outcome # "success"
\* the value a completed invocation assigned to lastStatus on its way
StatusOf(a) == IF a.outcome = "success" THEN "success" ELSE "failed"
\* a termination signal has been handled; FINAL STATISTICS is the block printed last
SignalHandled == exitCode = <<0>> \/ mExited # <<>>
FinalPrinted == report # <<>> /\ report[1].kind = "final"

\* C1: whenever every attempt started so far has completed, whatever the
\* outcomes were, totalTriggers = successfulTriggers + failedTriggers.
C1_CountersBalanced ==
    InFlight = 0 => totalTriggers = successfulTriggers + failedTriggers

\* C2 as stated: with N invocations completed, totalTriggers = N.
C2_TotalEqualsCompleted == totalTriggers = Completed

\* C2 amended: totalTriggers counts the invocations started, those completed
\* and those still in flight.
C2_TotalEqualsStarted == totalTriggers = Completed + InFlight

C2_Witness == Completed = 2 /\ InFlight = 1

\* C3: a completed tick whose response had a non-2xx status added exactly 1 to
\* failedTriggers and nothing to successfulTriggers, and set lastStatus to
\* failed, whether or not reading the body text succeeded.
C3_HttpErrorCountsOnce ==
    \A i \in 1..Len(attempts) :
        LET a == attempts[i] IN
        (Done(a) /\ a.status # 0 /\ ~ResponseOk(a.status)) =>
            (a.fAdds = 1 /\ a.sAdds = 0 /\ a.wrote = "failed")

\* C4 as stated: every completed tick whose response had a 2xx status added
\* exactly 1 to successfulTriggers and nothing to failedTriggers and set
\* lastStatus to success.
C4_Every2xxIsSuccess ==
    \A i \in 1..Len(attempts) :
        LET a == attempts[i] IN
        (Done(a) /\ ResponseOk(a.status)) =>
            (a.sAdds = 1 /\ a.fAdds = 0 /\ a.wrote = "success")

\* C4 amended: a completed tick whose response had a 2xx status and whose body
\* was read and parsed as JSON is a success whatever the parsed value is; a
\* 2xx response whose body could not be read or parsed is one failure.
C4_Parsed2xxIsSuccess ==
    \A i \in 1..Len(attempts) :
        LET a == attempts[i] IN
        (Done(a) /\ ResponseOk(a.status)) =>
            /\ a.body \in BodyShapes =>
                   (a.sAdds = 1 /\ a.fAdds = 0 /\ a.wrote = "success")
            /\ a.body \notin BodyShapes =>
                   (a.sAdds = 0 /\ a.fAdds = 1 /\ a.wrote = "failed")

C4_Witness ==
    \E i \in 1..Len(attempts) :
        /\ Done(attempts[i])
        /\ attempts[i].status = 200
        /\ attempts[i].body = "failure_envelope"
        /\ successfulTriggers = 1

\* C5: no invocation of triggerScheduler ends by throwing; one whose fetch
\* failed at the transport level added exactly 1 to failedTriggers and nothing
\* to successfulTriggers; and once a tick has started the process never ends
\* with a failure exit code.
C5_TransportFailureIsCounted ==
    /\ \A i \in 1..Len(attempts) :
           LET a == attempts[i] IN
           /\ a.outcome # "threw"
           /\ a.outcome = "transport" =>
                  (Done(a) /\ a.fAdds = 1 /\ a.sAdds = 0 /\ a.wrote = "failed")
    /\ attempts # <<>> => exitCode \in {<<>>, <<0>>}

C5_Witness ==
    /\ Len(attempts) = 2
    /\ attempts[1].outcome = "transport"
    /\ attempts[2].outcome = "transport"
    /\ failedTriggers = 2
    /\ pc = "armed"

\* C7: with SCHEDULER_SECRET unset or empty the process exits with code 1
\* in its first step; no attempt is ever started and the timer is never armed.
C7_MissingSecretIsFatal ==
    (~env.secret.set \/ env.secret.val = <<>>) =>
        /\ totalTriggers = 0
        /\ attempts = <<>>
        /\ ~timerArmed
        /\ pc \in {"init", "exited"}
        /\ pc = "exited" => exitCode = <<1>>

C7_Witness == env.secret = Str(<<>>) /\ pc = "exited" /\ exitCode = <<1>>

\* C6: the timer, once armed, stays armed; the step in which a tick fails
\* does not end the process; and unless the process is ended by a signal, a
\* failed tick is followed by the start of a further tick (for every tick but
\* the last one the bound MaxTriggers admits).
C6_FailedTickKeepsLoopAlive ==
    /\ [][timerArmed => timerArmed']_vars
    /\ [][(\E i \in 1..Len(attempts) : ~Done(attempts[i]) /\ Failed(attempts'[i]))
            => (pc' # "exited" /\ exitCode' = <<>>)]_vars
    /\ \A k \in 1..(MaxTriggers - 1) :
           (Len(attempts) = k /\ Failed(attempts[k]))
               ~> (Len(attempts) > k \/ pc = "exited")

C6_Witness ==
    /\ Len(attempts) = 3
    /\ Failed(attempts[1])
    /\ Failed(attempts[2])
    /\ attempts[3].byTimer
    /\ timerArmed

\* C8: the first trigger starts at process start, not from the timer and
\* before the timer is armed; every later trigger is started by the timer; and
\* the second trigger starts at least one configured interval after the first.
C8_FirstImmediateThenInterval ==
    /\ attempts # <<>> => (attempts[1].start = 0 /\ ~attempts[1].byTimer)
    /\ timerArmed => (attempts # <<>> /\ Done(attempts[1]))
    /\ \A i \in 2..Len(attempts) : attempts[i].byTimer
    /\ Len(attempts) >= 2 =>
           LET iv == config[1].interval IN
           ~iv.nan => attempts[2].start - attempts[1].start >= iv.val

C8_Witness ==
    /\ Len(attempts) >= 2
    /\ config[1].interval = Num(2)
    /\ attempts[1].start = 0
    /\ attempts[2].start = 2

\* C9: while the scheduler is stopped no timer is armed and no handle is
\* held, and no POST is issued: every POST of every check was issued while
\* this.running was true.
C9_NoCallAfterStop ==
    /\ ~running => (timers = {} /\ intervalId = <<>>)
    /\ \A k \in 1..Len(checks) :
           \A j \in 1..Len(checks[k].posts) : checks[k].posts[j].running

IsCall(op) == Len(ops') = Len(ops) + 1 /\ ops'[Len(ops')] = op

\* C10: this.running is a boolean; start() leaves the scheduler Running and
\* stop() leaves it Stopped; start() on a Running scheduler and stop() on a
\* Stopped one change nothing (no timer armed or cleared, no check started).
C10_StartStopIdempotent ==
    /\ [](running \in BOOLEAN)
    /\ [][IsCall("start") => running']_vars
    /\ [][IsCall("stop") => ~running']_vars
    /\ [][(IsCall("start") /\ running)
            => UNCHANGED <<running, intervalId, timers, nextId, checks>>]_vars
    /\ [][(IsCall("stop") /\ ~running)
            => UNCHANGED <<running, intervalId, timers, nextId, checks>>]_vars

C10_Witness ==
    /\ ops = <<"stop", "start", "start">>
    /\ running
    /\ timers = {1}
    /\ Len(checks) = 1

\* C11: triggerCheck never rejects, and however the calls of a tick have
\* ended (ok, envelope success false, HTTP error, transport failure, malformed
\* body), the tick has issued the POST of the call that follows: after the
\* queries call the cleanups POST, after the cleanups call the outputs POST.
C11_CallsAreIsolated ==
    /\ \A k \in 1..Len(checks) : checks[k].stage # "rejected"
    /\ checks # <<>> =>
           LET c == checks[Len(checks)] IN
           /\ \A j \in 1..Len(outs) : outs[j] \in CallOutcomes
           /\ Len(outs) >= 1 => (Len(c.posts) >= 2 /\ c.posts[2].ep = "cleanups")
           /\ Len(outs) >= 2 => (Len(c.posts) >= 3 /\ c.posts[3].ep = "outputs")
           /\ Len(outs) = 3 <=> c.stage = "done"

C11_Witness ==
    /\ outs = <<"http_error", "ok", "transport">>
    /\ checks[Len(checks)].stage = "done"
    /\ Len(checks[Len(checks)].posts) = 3

\* C12: within one tick the three calls are made one after the other, in the
\* order queries, cleanups, outputs, in every tick: the POSTs a tick has issued
\* are the calls up to the one it is in, so the cleanups POST is issued only
\* once the queries call has finished and the outputs POST only once the
\* cleanups call has finished, and at most one call of a tick is pending.
C12_CallsAreSequential ==
    \A k \in 1..Len(checks) :
        LET c == checks[k]
            order == <<"queries", "cleanups", "outputs">>
            at == CASE c.stage = "queries" -> 1
                    [] c.stage = "cleanups" -> 2
                    [] OTHER -> 3
        IN  /\ Len(c.posts) = at
            /\ \A j \in 1..Len(c.posts) : c.posts[j].ep = order[j]
            /\ c.phase = "none" <=> c.stage = "done"

C12_Witness ==
    /\ Len(checks) = 2
    /\ checks[1].stage = "done" /\ ~checks[1].byTimer
    /\ checks[2].stage = "done" /\ checks[2].byTimer
    /\ \A k \in 1..2 : Len(checks[k].posts) = 3

C14_DueTimerStartsAttempt ==
    (pc = "armed" /\ timerArmed /\ now >= nextFire /\ Len(attempts) < MaxTriggers)
        => ENABLED TimerFire

C14_Witness ==
    \E i, j \in 1..Len(attempts) :
        /\ i < j
        /\ attempts[i].byTimer /\ attempts[i].pc = "fetch"
        /\ attempts[j].byTimer /\ attempts[j].pc = "fetch"

\* C15 as stated: lastTriggerTime is absent exactly when totalTriggers = 0;
\* lastStatus is absent exactly when no attempt has completed, and otherwise is
\* success or failed and is how the most recently completed attempt ended
\* (compared here where that attempt is known: when one attempt has completed).
C15_StatusOfLastCompleted ==
    /\ lastTriggerTime = <<>> <=> totalTriggers = 0
    /\ lastStatus = "null" <=> Completed = 0
    /\ Completed > 0 => lastStatus \in {"success", "failed"}
    /\ Completed = 1 =>
           \A i \in 1..Len(attempts) :
               Done(attempts[i]) => lastStatus = StatusOf(attempts[i])

\* C15, amended: lastTriggerTime is absent exactly when totalTriggers = 0;
\* lastStatus is absent exactly when no attempt has recorded an outcome yet, and
\* otherwise is success or failed and is the outcome recorded last by any
\* attempt: every step in which an attempt counts a success or a failure
\* assigns it, and no other step changes it. An attempt records failed on a
\* non-2xx response before it reads the body, so before it completes; every
\* completed attempt has recorded how it ended.
C15_StatusOfLastRecorded ==
    /\ [](/\ lastTriggerTime = <<>> <=> totalTriggers = 0
          /\ lastStatus \in {"null", "success", "failed"}
          /\ lastStatus = "null" <=> successfulTriggers + failedTriggers = 0
          /\ lastStatus = "null" <=>
                 \A i \in 1..Len(attempts) : attempts[i].wrote = "null"
          /\ lastStatus # "null" =>
                 \E i \in 1..Len(attempts) : attempts[i].wrote = lastStatus
          /\ \A i \in 1..Len(attempts) :
                 Done(attempts[i]) => attempts[i].wrote = StatusOf(attempts[i]))
    /\ [][/\ successfulTriggers' > successfulTriggers => lastStatus' = "success"
          /\ failedTriggers' > failedTriggers => lastStatus' = "failed"
          /\ (successfulTriggers' = successfulTriggers
                 /\ failedTriggers' = failedTriggers) => lastStatus' = lastStatus]_vars

\* the startup attempt ended in success, and a later attempt has recorded
\* failed on a non-2xx response whose body it is still reading
C15_Witness ==
    /\ Completed = 1 /\ Done(attempts[1]) /\ attempts[1].outcome = "success"
    /\ \E j \in 2..Len(attempts) : attempts[j].pc = "text"
    /\ lastStatus = "failed"

\* C16: the three counters are natural numbers, and no step decreases any of
\* them.
C16_CountersNeverDecrease ==
    /\ [](totalTriggers \in Nat /\ successfulTriggers \in Nat /\ failedTriggers \in Nat)
    /\ [][/\ totalTriggers' >= totalTriggers
          /\ successfulTriggers' >= successfulTriggers
          /\ failedTriggers' >= failedTriggers]_vars

\* a success counted after a failure, with all three counters above zero
C16_Witness ==
    /\ Len(attempts) >= 2
    /\ Failed(attempts[1])
    /\ attempts[2].outcome = "success"
    /\ totalTriggers = 2 /\ successfulTriggers = 1 /\ failedTriggers >= 1

\* C17: whatever SCHEDULER_INTERVAL holds, the configuration loadConfig
\* returned has an interval that is a number and is positive, and once the
\* timer is armed its period is positive.
C17_IntervalIsPositive ==
    config # <<>> =>
        /\ ~config[1].interval.nan
        /\ config[1].interval.val > 0
        /\ timerArmed => TimerDelay(config[1].interval) > 0

\* C18: the success rate in every statistics snapshot is
\* successfulTriggers / totalTriggers * 100 rounded to one decimal place (no
\* value with one decimal is nearer) when totalTriggers > 0 and is 0 when
\* totalTriggers = 0, so nothing is divided by zero; it lies between 0 and 100.
\* No snapshot is printed with totalTriggers = 0: the expression gives 0 there.
\* The rate is held in tenths of a percent.
C18_SuccessRateIsRounded ==
    (report # <<>> /\ report[1].kind = "snapshot") =>
        LET r == report[1]
            off == 1000 * r.successful - r.rate * r.total
        IN  /\ r.total > 0 => (2 * off <= r.total /\ 2 * (0 - off) <= r.total)
            /\ r.total = 0 => r.rate = 0
            /\ r.total > 0 /\ SuccessRate(0, 0) = 0
            /\ r.rate >= 0 /\ r.rate <= 1000

\* two of three attempts succeeded: the snapshot shows 66.7
C18_Witness ==
    /\ report # <<>> /\ report[1].kind = "snapshot"
    /\ report[1].successful = 2 /\ report[1].total = 3
    /\ report[1].rate = 667

\* C19: totalTriggers = successfulTriggers + failedTriggers + the number of
\* attempts started and not yet completed; stated here by what the claim draws
\* from it: the attempts counted as succeeded or failed never outnumber the
\* attempts counted as started.
C19_SettledNeverExceedTotal ==
    successfulTriggers + failedTriggers <= totalTriggers

\* C20: the timer is armed only after the startup tick has completed and been
\* counted; while the startup tick is in flight it is the only tick, and no
\* further tick starts, however much time passes.
C20_TimerArmedAfterStartupTick ==
    /\ timerArmed =>
           /\ Len(attempts) >= 1 /\ Done(attempts[1])
           /\ successfulTriggers + failedTriggers >= 1
    /\ (Len(attempts) >= 1 /\ ~Done(attempts[1])) =>
           /\ Len(attempts) = 1 /\ totalTriggers = 1
           /\ ~timerArmed /\ pc \in {"awaitFirst", "exited"}
           /\ ~ENABLED TimerFire

\* the interval is 0 ms, the clock has moved on, and the startup call is
\* still pending: no second tick
C20_Witness ==
    /\ env.interval = Str(<<"0">>)
    /\ now = MaxTime
    /\ Len(attempts) = 1 /\ attempts[1].pc = "fetch"
    /\ pc = "awaitFirst"

\* C21: after any sequence of start() and stop() calls, this.running is true
\* exactly when a timer handle is held, at most one interval is armed, and the
\* armed interval is the one whose handle is held: no interval armed by an
\* earlier start() is left to fire after stop() and a new start().
C21_RunningIffTimerHeld ==
    /\ running <=> intervalId # <<>>
    /\ Cardinality(timers) <= 1
    /\ timers = {intervalId[j] : j \in 1..Len(intervalId)}

\* started, stopped and started again: the second interval is the only one armed
C21_Witness ==
    /\ ops = <<"start", "stop", "start">>
    /\ running
    /\ intervalId = <<2>>
    /\ timers = {2}
    /\ Len(checks) = 2

====
